---- MODULE Spec2Model ----
(***************************************************************************)
(* A model of the AWS FinOps cost optimizer's units: the auto-tagger, the  *)
(* instance scheduler and the snapshot cleanup Lambda handlers, and the    *)
(* unused-resources scanner.  Each handler is one action; the remote EC2   *)
(* state (instances, volumes, snapshots and their tags) is the state the   *)
(* handlers read and change.                                               *)
(***************************************************************************)
EXTENDS Integers, Sequences, FiniteSets, TLC

\* ------------------------------------------------------------------ bounds
NumInstances == 2
NumSnapshots == 2
\* Items per page of a paginated listing.
PageSize == 1

InstanceIds == {<<"instance", n>> : n \in 1..NumInstances}
VolumeIds == {<<"volume", 1>>}
TaggableIds == InstanceIds \cup VolumeIds
SnapshotIds == {<<"snapshot", n>> : n \in 1..NumSnapshots}

\* The tags a resource may carry before the tagger first runs, each with a
\* value other than the one the tagger would give the key.
InitialTagPairs == {<<"Environment", "prod">>, <<"Owner", "ops">>}
\* The instance states of the tagger's runs: one its filter lists, one it drops.
TaggerInitStates == {"running", "terminated"}

\* ------------------------------------------------------------------ state
VARIABLES
    instState,      \* instance id -> instance-state-name
    resTags,        \* instance or volume id -> its tags, a set of <<Key, Value>>
    default_tags,   \* the tagger's DEFAULT_TAGS, a set of <<Key, Value>>
    tagger,         \* the auto-tagger's last run: status, remote calls, body
    scheduler,      \* the scheduler's last run: action, status, remote calls, body,
                    \* and the instances EC2 accepted its stop and start calls for
    snapshots,      \* snapshot id -> [exists, StartTime, Tags] of the account
    retention_days, \* the cleanup's RETENTION_DAYS
    dry_run,        \* the cleanup's DRY_RUN
    cleanup,        \* the snapshot cleanup's last run: status, remote calls, body
    scan,           \* the unused-resources scanner's last scan
    report,         \* cost_analysis.py's last run: exit status, remote calls, output
    finder,         \* unused_resources.py's last run: exit status, remote calls, output
    idle            \* the last utilization scan: its kind, inputs and findings

vars == <<instState, resTags, default_tags, tagger, scheduler,
          snapshots, retention_days, dry_run, cleanup, scan,
          report, finder, idle>>

ec2Vars == <<instState, resTags>>
snapVars == <<snapshots, retention_days, dry_run>>
scriptVars == <<report, finder, idle>>

\* ---------------------------------------------------------------- helpers
Min(a, b) == IF a < b THEN a ELSE b

\* The tag lists (unique keys) made of the given <<Key, Value>> pairs.
TagSetsOver(pairs) ==
    {S \in SUBSET pairs : \A a, b \in S : a[1] = b[1] => a = b}

\* The orders in which a listing may return the set S.
ListingsOf(S) ==
    {f \in [1..Cardinality(S) -> S] : \A i, j \in 1..Cardinality(S) : f[i] = f[j] => i = j}

\* A paginated listing of n items takes one call per page, at least one.
NumPages(n) == IF n = 0 THEN 1 ELSE (n + PageSize - 1) \div PageSize
Page(order, p) == SubSeq(order, (p - 1) * PageSize + 1, Min(p * PageSize, Len(order)))

\* round(n / d) to the nearest integer, a tie to the even one (d > 0).
RoundDiv(n, d) ==
    LET q == n \div d
        r == n % d
    IN  IF 2 * r < d THEN q
        ELSE IF 2 * r > d THEN q + 1
        ELSE IF q % 2 = 0 THEN q ELSE q + 1

\* A remote call as logged: the operation, its target, the tags it sends.
Call(op, target, tags) == [op |-> op, target |-> target, tags |-> tags]

\* ------------------------------------------------------------ auto-tagger
\* DEFAULT_TAGS when the environment does not set it.
DefaultTagsUnset == {<<"Environment", "Untagged">>, <<"Owner", "Unknown">>}

\* existing_tags = {t["Key"] for t in resource.get("Tags", [])}
ExistingKeys(tags) == {t[1] : t \in tags}

\* (mutants: the delta compares whole tags, not keys; the delta is everything)
TagsToAddByPair(desired, tags) == {t \in desired : t \notin tags}

TagsToAddAll(desired, tags) == desired

\* tags_to_add = {k: v for k, v in default_tags.items() if k not in existing_tags}
TagsToAdd(desired, tags) == {t \in desired : t[1] \notin ExistingKeys(tags)}

\* What create_tags does to a resource's tags: it adds each pair, and
\* overwrites the value of a key the resource already carries.
CreateTags(existing, tags) ==
    {e \in existing : e[1] \notin ExistingKeys(tags)} \cup tags

\* The instances describe_instances returns under the tagger's state filter.
TaggerListedInstances(states) ==
    {i \in InstanceIds : states[i] \in {"running", "stopped"}}

\* The run so far: the remote calls issued, the ids tagged, the remote tags,
\* and whether a remote call has raised.  failAt is the number of the remote
\* call of this run that raises (0: none does).
Issue(acc, call, failAt) ==
    [acc EXCEPT !.calls = Append(@, call),
                !.raised = (Len(acc.calls) + 1 = failAt)]

\* The body of the loop over one page: create_tags for a non-empty delta.
RECURSIVE TagItems(_, _, _, _, _, _)
TagItems(page, i, listed, desired, acc, failAt) ==
    IF acc.raised \/ i > Len(page) THEN acc
    ELSE LET id == page[i]
             tags_to_add == TagsToAdd(desired, listed[id])
         IN  IF tags_to_add = {}
             THEN TagItems(page, i + 1, listed, desired, acc, failAt)
             ELSE LET sent == Issue(acc, Call("create_tags", id, tags_to_add), failAt)
                  IN  IF sent.raised THEN sent
                      ELSE TagItems(page, i + 1, listed, desired,
                                    [sent EXCEPT !.tags[id] = CreateTags(@, tags_to_add),
                                                 !.tagged = Append(@, id)],
                                    failAt)

\* The loop over the pages of a listing: each page is one describe call.
RECURSIVE TagPages(_, _, _, _, _, _, _)
TagPages(describe, order, p, listed, desired, acc, failAt) ==
    IF acc.raised \/ p > NumPages(Len(order)) THEN acc
    ELSE LET fetched == Issue(acc, Call(describe, <<"page", p>>, {}), failAt)
         IN  IF fetched.raised THEN fetched
             ELSE TagPages(describe, order, p + 1, listed, desired,
                           TagItems(Page(order, p), 1, listed, desired, fetched, failAt),
                           failAt)

tag_untagged_instances(order, listed, desired, acc, failAt) ==
    TagPages("describe_instances", order, 1, listed, desired,
             [acc EXCEPT !.tagged = <<>>], failAt)

tag_untagged_volumes(order, listed, desired, acc, failAt) ==
    TagPages("describe_volumes", order, 1, listed, desired,
             [acc EXCEPT !.tagged = <<>>], failAt)

\* The tagger's lambda_handler: instances, then volumes, then the 200 body.
TaggerRun(instOrder, volOrder, failAt) ==
    LET start == [calls |-> <<>>, tagged |-> <<>>, tags |-> resTags, raised |-> FALSE]
        inst == tag_untagged_instances(instOrder, resTags, default_tags, start, failAt)
        vol == IF inst.raised THEN inst
               ELSE tag_untagged_volumes(volOrder, resTags, default_tags, inst, failAt)
    IN  [status |-> IF vol.raised THEN "raised" ELSE "200",
         calls |-> vol.calls,
         Instances |-> IF vol.raised THEN <<>> ELSE inst.tagged,
         Volumes |-> IF vol.raised THEN <<>> ELSE vol.tagged,
         tags |-> vol.tags]

\* One invocation of the tagger.  Any one of the remote calls the run issues
\* may raise (failAt); parity tells a run's record from the one before it.
TaggerHandler ==
    \E instOrder \in ListingsOf(TaggerListedInstances(instState)),
       volOrder \in ListingsOf(VolumeIds) :
        \E failAt \in 0..Len(TaggerRun(instOrder, volOrder, 0).calls) :
        LET run == TaggerRun(instOrder, volOrder, failAt)
        IN  /\ tagger' = [status |-> run.status, calls |-> run.calls,
                          Instances |-> run.Instances, Volumes |-> run.Volumes,
                          parity |-> 1 - tagger.parity]
            /\ resTags' = run.tags
            /\ UNCHANGED <<scriptVars, instState, default_tags, scheduler, snapVars, cleanup, scan>>

NoRun == [status |-> "none", calls |-> <<>>, Instances |-> <<>>, Volumes |-> <<>>,
          parity |-> 0]

\* -------------------------------------------------------------- scheduler
\* tag_key when the environment does not set TAG_KEY.
TagKeyUnset == "AutoScheduler"

\* The modules scheduler/main.py imports; json is not among them.
SchedulerImports == {"boto3", "os", "typing"}

\* The action selectors an event may carry; "absent" is an event without one.
EventActions == {"absent", "stop", "start", "restart"}

\* (mutant: any selector that is not start is taken for stop)
EventActionLenient(selector) == IF selector = "start" THEN "start" ELSE "stop"

\* action = event.get("action", "stop")
EventAction(selector) == IF selector = "absent" THEN "stop" ELSE selector

\* (mutants: the listing is not filtered by instance state; the listing is
\* not filtered by the tag's value)
InstancesByTagAnyState(states, tags, tag_value) ==
    {i \in InstanceIds : <<TagKeyUnset, tag_value>> \in tags[i]}

InstancesByTagAnyValue(states, tags, tag_value) ==
    {i \in InstanceIds :
        /\ \E t \in tags[i] : t[1] = TagKeyUnset
        /\ states[i] = (IF tag_value = "stop" THEN "running" ELSE "stopped")}

\* The instances describe_instances returns under get_instances_by_tag's
\* filters: tag:<tag_key> = tag_value, and running for "stop", else stopped.
InstancesByTag(states, tags, tag_value) ==
    {i \in InstanceIds :
        /\ <<TagKeyUnset, tag_value>> \in tags[i]
        /\ states[i] = (IF tag_value = "stop" THEN "running" ELSE "stopped")}

\* get_instances_by_tag: one describe call per page, the ids in listing order.
RECURSIVE ListPages(_, _, _, _)
ListPages(order, p, acc, failAt) ==
    IF acc.raised \/ p > NumPages(Len(order)) THEN acc
    ELSE LET fetched == Issue(acc, Call("describe_instances", <<"page", p>>, {}), failAt)
         IN  IF fetched.raised THEN fetched
             ELSE ListPages(order, p + 1,
                            [fetched EXCEPT !.ids = @ \o Page(order, p)], failAt)

get_instances_by_tag(order, failAt) ==
    ListPages(order, 1, [calls |-> <<>>, ids |-> <<>>, raised |-> FALSE], failAt)

\* (mutant: the bulk call is issued for an empty list too)
BulkActionUnguarded(op, order, failAt) ==
    LET found == get_instances_by_tag(order, failAt)
    IN  IF found.raised THEN found
        ELSE Issue(found, Call(op, found.ids, {}), failAt)

\* stop_instances / start_instances: the bulk call only for a non-empty list.
BulkAction(op, order, failAt) ==
    LET found == get_instances_by_tag(order, failAt)
    IN  IF found.raised \/ found.ids = <<>> THEN found
        ELSE Issue(found, Call(op, found.ids, {}), failAt)

stop_instances(order, failAt) == BulkAction("stop_instances", order, failAt)

start_instances(order, failAt) == BulkAction("start_instances", order, failAt)

\* The state an instance enters when a stop or start call is accepted.
AfterCall(op) == IF op = "stop_instances" THEN "stopping" ELSE "pending"

\* The instance states after the run's calls: a bulk call that did not raise
\* moves its targets.
StatesAfter(states, done) ==
    [i \in InstanceIds |->
        IF /\ ~done.raised
           /\ \E k \in 1..Len(done.calls) :
                /\ done.calls[k].op \in {"stop_instances", "start_instances"}
                /\ \E j \in 1..Len(done.calls[k].target) : done.calls[k].target[j] = i
        THEN AfterCall(done.calls[Len(done.calls)].op)
        ELSE states[i]]

\* The instances EC2 accepted the run's op call for (a call that raised was
\* not accepted).
AcceptedTargets(run, op) ==
    IF run.error = "remote" THEN {}
    ELSE UNION {{run.calls[k].target[j] : j \in 1..Len(run.calls[k].target)} :
                k \in {n \in 1..Len(run.calls) : run.calls[n].op = op}}

\* json.dumps(...) in a module that does not import json raises NameError.
JsonDumps(key, ids) ==
    IF "json" \in SchedulerImports
    THEN [status |-> "200", error |-> "none", key |-> key, ids |-> ids]
    ELSE [status |-> "raised", error |-> "NameError", key |-> "none", ids |-> <<>>]

\* The scheduler's lambda_handler.
SchedulerRun(selector, order, failAt) ==
    LET action == EventAction(selector)
        done == IF action = "stop" THEN stop_instances(order, failAt)
                ELSE start_instances(order, failAt)
        body == IF done.raised
                THEN [status |-> "raised", error |-> "remote", key |-> "none", ids |-> <<>>]
                ELSE JsonDumps(IF action = "stop" THEN "StoppedInstances"
                               ELSE "StartedInstances", done.ids)
    IN  IF action \in {"stop", "start"}
        THEN [selector |-> selector, status |-> body.status, error |-> body.error,
              calls |-> done.calls, key |-> body.key, ids |-> body.ids,
              matched |-> done.ids]
        ELSE [selector |-> selector, status |-> "400", error |-> "none",
              calls |-> <<>>, key |-> "none", ids |-> <<>>, matched |-> <<>>]

\* One invocation of the scheduler.  Any one of the remote calls the run
\* issues may raise (failAt).
SchedulerHandler ==
    \E selector \in EventActions :
        \E order \in ListingsOf(InstancesByTag(instState, resTags, EventAction(selector))) :
            \E failAt \in 0..Len(SchedulerRun(selector, order, 0).calls) :
            LET run == SchedulerRun(selector, order, failAt)
            IN  /\ scheduler' = [selector |-> run.selector, status |-> run.status,
                                 error |-> run.error, calls |-> run.calls,
                                 key |-> run.key, ids |-> run.ids,
                                 matched |-> run.matched,
                                 stopped |-> scheduler.stopped
                                     \cup AcceptedTargets(run, "stop_instances"),
                                 started |-> scheduler.started
                                     \cup AcceptedTargets(run, "start_instances"),
                                 parity |-> 1 - scheduler.parity]
                /\ instState' = StatesAfter(instState,
                                    [calls |-> run.calls, raised |-> run.error = "remote"])
                /\ UNCHANGED <<scriptVars, resTags, default_tags, tagger, snapVars, cleanup, scan>>

\* EC2 completes a stop or a start: stopping -> stopped, pending -> running.
InstanceSettles ==
    \E i \in InstanceIds :
        /\ instState[i] \in {"stopping", "pending"}
        /\ instState' = [instState EXCEPT ![i] = IF @ = "stopping" THEN "stopped"
                                                 ELSE "running"]
        /\ UNCHANGED <<scriptVars, resTags, default_tags, tagger, scheduler, snapVars, cleanup, scan>>

NoSchedulerRun ==
    [selector |-> "none", status |-> "none", error |-> "none", calls |-> <<>>,
     key |-> "none", ids |-> <<>>, matched |-> <<>>, stopped |-> {}, started |-> {},
     parity |-> 0]

\* The scheduler tags an instance may carry.
SchedulerTagPairs ==
    {<<TagKeyUnset, "stop">>, <<TagKeyUnset, "start">>, <<TagKeyUnset, "off">>}



\* ------------------------------------------------------- snapshot cleanup
\* datetime.now(timezone.utc): times are counted in days from the run's now.
UtcNow == 0

\* RETENTION_DAYS when the environment does not set it.
RetentionDaysUnset == 30

\* The start times (days before now) and tags a snapshot may have.
SnapshotStartTimes == {UtcNow - 30, UtcNow - 45}
SnapshotTagSets == {{}, {<<"Name", "db">>}, {<<"Retain", "false">>, <<"Name", "db">>}}
RetentionChoices == {RetentionDaysUnset, 45}

\* The snapshots describe_snapshots returns for the account.
ListedSnapshots(snaps) == {s \in SnapshotIds : snaps[s].exists}

\* (mutant: only a Retain tag with the value true counts)
HasRetainTagTrue(snapshot) == <<"Retain", "true">> \in snapshot.Tags

\* any(tag.get("Key") == "Retain" for tag in snapshot.get("Tags", []))
HasRetainTag(snapshot) == \E t \in snapshot.Tags : t[1] = "Retain"

\* start_time < datetime.now(timezone.utc) - timedelta(days=retention_days)
IsOld(snapshot, days) == snapshot.StartTime < UtcNow - days

\* An aborting call of a scan (get_caller_identity, a page of the listing):
\* failList is the number of the listing call that raises (0: none does).
IssueListing(acc, call, failList) ==
    [acc EXCEPT !.calls = Append(@, call),
                !.raised = (acc.listings + 1 = failList),
                !.listings = @ + 1]

\* (mutants: the dry-run flag is ignored; a failed delete is recorded all the
\* same; a failed delete is not caught)
DeleteOrRecordIgnoringDryRun(snapshot_id, dry, acc, failDelete) ==
    LET sent == [acc EXCEPT !.calls =
                     Append(@, Call("delete_snapshot", snapshot_id, {}))]
    IN  IF snapshot_id \in failDelete
        THEN sent
        ELSE [sent EXCEPT !.deleted = Append(@, snapshot_id),
                          !.gone = @ \cup {snapshot_id}]

DeleteOrRecordKeepFailed(snapshot_id, dry, acc, failDelete) ==
    IF dry
    THEN [acc EXCEPT !.deleted = Append(@, snapshot_id)]
    ELSE [acc EXCEPT !.calls = Append(@, Call("delete_snapshot", snapshot_id, {})),
                     !.deleted = Append(@, snapshot_id),
                     !.gone = IF snapshot_id \in failDelete THEN @
                              ELSE @ \cup {snapshot_id}]

DeleteOrRecordUncaught(snapshot_id, dry, acc, failDelete) ==
    IF dry
    THEN [acc EXCEPT !.deleted = Append(@, snapshot_id)]
    ELSE LET sent == [acc EXCEPT !.calls =
                          Append(@, Call("delete_snapshot", snapshot_id, {}))]
         IN  IF snapshot_id \in failDelete
             THEN [sent EXCEPT !.raised = TRUE]
             ELSE [sent EXCEPT !.deleted = Append(@, snapshot_id),
                               !.gone = @ \cup {snapshot_id}]

\* What the loop does with an old snapshot: in a dry run it records the id;
\* otherwise it calls delete_snapshot inside try/except, and records the id
\* only when the call did not raise (failDelete: the ids whose delete raises).
DeleteOrRecord(snapshot_id, dry, acc, failDelete) ==
    IF dry
    THEN [acc EXCEPT !.deleted = Append(@, snapshot_id)]
    ELSE LET sent == [acc EXCEPT !.calls =
                          Append(@, Call("delete_snapshot", snapshot_id, {}))]
         IN  IF snapshot_id \in failDelete
             THEN sent
             ELSE [sent EXCEPT !.deleted = Append(@, snapshot_id),
                               !.gone = @ \cup {snapshot_id}]

\* The body of the loop over one page of snapshots.
RECURSIVE CleanupItems(_, _, _, _, _, _, _)
CleanupItems(page, i, listed, days, dry, acc, failDelete) ==
    IF acc.raised \/ i > Len(page) THEN acc
    ELSE LET snapshot_id == page[i]
             snapshot == listed[snapshot_id]
             next(a) == CleanupItems(page, i + 1, listed, days, dry, a, failDelete)
         IN  IF HasRetainTag(snapshot) THEN next(acc)
             ELSE IF IsOld(snapshot, days)
                  THEN next(DeleteOrRecord(snapshot_id, dry, acc, failDelete))
                  ELSE next(acc)

RECURSIVE CleanupPages(_, _, _, _, _, _, _, _)
CleanupPages(order, p, listed, days, dry, acc, failList, failDelete) ==
    IF acc.raised \/ p > NumPages(Len(order)) THEN acc
    ELSE LET fetched == IssueListing(acc, Call("describe_snapshots", <<"page", p>>, {}),
                                     failList)
         IN  IF fetched.raised THEN fetched
             ELSE CleanupPages(order, p + 1, listed, days, dry,
                               CleanupItems(Page(order, p), 1, listed, days, dry,
                                            [fetched EXCEPT !.listed = @ \o Page(order, p)],
                                            failDelete),
                               failList, failDelete)

cleanup_snapshots(order, listed, days, dry, failList, failDelete) ==
    LET start == [calls |-> <<>>, listings |-> 0, listed |-> <<>>, deleted |-> <<>>,
                  gone |-> {}, raised |-> FALSE]
        owner == IssueListing(start, Call("get_caller_identity", <<"sts", 0>>, {}), failList)
    IN  CleanupPages(order, 1, listed, days, dry, owner, failList, failDelete)

\* The cleanup's lambda_handler.
CleanupRun(order, failList, failDelete) ==
    LET done == cleanup_snapshots(order, snapshots, retention_days, dry_run,
                                  failList, failDelete)
    IN  [status |-> IF done.raised THEN "raised" ELSE "200",
         calls |-> done.calls,
         DeletedSnapshots |-> IF done.raised THEN <<>> ELSE done.deleted,
         DryRun |-> dry_run,
         listed |-> done.listed,
         gone |-> done.gone]

\* The listing calls one scan of the snapshots can issue.
MaxListingCalls == 1 + NumPages(NumSnapshots)

\* The snapshots a run would try to delete: those whose delete may fail.
DeleteTargets ==
    {s \in ListedSnapshots(snapshots) :
        ~dry_run /\ ~HasRetainTag(snapshots[s]) /\ IsOld(snapshots[s], retention_days)}

CleanupHandler ==
    \E order \in ListingsOf(ListedSnapshots(snapshots)),
       failList \in 0..MaxListingCalls,
       failDelete \in SUBSET DeleteTargets :
        LET run == CleanupRun(order, failList, failDelete)
        IN  /\ cleanup' = [status |-> run.status, calls |-> run.calls,
                           DeletedSnapshots |-> run.DeletedSnapshots,
                           DryRun |-> run.DryRun, listed |-> run.listed,
                           parity |-> 1 - cleanup.parity]
            /\ snapshots' = [s \in SnapshotIds |->
                                IF s \in run.gone
                                THEN [snapshots[s] EXCEPT !.exists = FALSE]
                                ELSE snapshots[s]]
            /\ UNCHANGED <<scriptVars, ec2Vars, default_tags, tagger, scheduler,
                           retention_days, dry_run, scan>>

\* DRY_RUN is read from the environment at each invocation: the function's
\* configuration may be changed between two invocations.
Reconfigure ==
    /\ dry_run' = ~dry_run
    /\ UNCHANGED <<scriptVars, ec2Vars, default_tags, tagger, scheduler, snapshots,
                   retention_days, cleanup, scan>>

NoCleanupRun ==
    [status |-> "none", calls |-> <<>>, DeletedSnapshots |-> <<>>, DryRun |-> FALSE,
     listed |-> <<>>, parity |-> 0]

NoScan == [status |-> "none", calls |-> <<>>, snapshot_days |-> RetentionDaysUnset,
           OldEBSSnapshots |-> <<>>, parity |-> 0]

\* The units that do not touch snapshots start with none in the account.
NoSnapshotState ==
    /\ snapshots = [s \in SnapshotIds |-> [exists |-> FALSE, StartTime |-> UtcNow, Tags |-> {}]]
    /\ retention_days = RetentionDaysUnset
    /\ dry_run = TRUE
    /\ cleanup = NoCleanupRun
    /\ scan = NoScan

\* The units that do not touch instances start with none running.
NoEc2State ==
    /\ instState = [i \in InstanceIds |-> "terminated"]
    /\ resTags = [r \in TaggableIds |-> {}]
    /\ default_tags = DefaultTagsUnset
    /\ tagger = NoRun

\* The command-line scripts before their first run.
NoReport ==
    [status |-> "none", error |-> "none", calls |-> <<>>, output |-> <<>>,
     response |-> <<>>, records |-> <<>>, written |-> <<>>, parity |-> 0]

NoFinder ==
    [status |-> "none", args |-> <<>>, calls |-> <<>>, scanned |-> <<>>, failed |-> {},
     found |-> <<>>, all_results |-> <<>>, written |-> <<>>, parity |-> 0]

NoIdle ==
    [kind |-> "none", status |-> "none", calls |-> <<>>, cpu_threshold |-> <<>>,
     listed |-> <<>>, datapoints |-> <<>>, findings |-> <<>>, parity |-> 0]

NoScriptState ==
    /\ report = NoReport
    /\ finder = NoFinder
    /\ idle = NoIdle

InitSnapshots ==
    snapshots \in [SnapshotIds -> [exists : {TRUE}, StartTime : SnapshotStartTimes,
                                   Tags : SnapshotTagSets]]

InitCleanup ==
    /\ NoEc2State
    /\ scheduler = NoSchedulerRun
    /\ InitSnapshots
    /\ retention_days \in RetentionChoices
    /\ dry_run \in BOOLEAN
    /\ cleanup = NoCleanupRun
    /\ scan = NoScan
    /\ NoScriptState

NextCleanup == CleanupHandler \/ Reconfigure

SpecCleanup == InitCleanup /\ [][NextCleanup]_vars

\* ------------------------------------------------ unused-resources scanner
\* The loop of find_old_ebs_snapshots over one page.
RECURSIVE OldItems(_, _, _, _, _)
OldItems(page, i, listed, days, acc) ==
    IF i > Len(page) THEN acc
    ELSE LET snapshot == listed[page[i]]
         IN  IF IsOld(snapshot, days)
             THEN OldItems(page, i + 1, listed, days,
                           [acc EXCEPT !.old = Append(@, page[i])])
             ELSE OldItems(page, i + 1, listed, days, acc)

RECURSIVE OldPages(_, _, _, _, _, _)
OldPages(order, p, listed, days, acc, failList) ==
    IF acc.raised \/ p > NumPages(Len(order)) THEN acc
    ELSE LET fetched == IssueListing(acc, Call("describe_snapshots", <<"page", p>>, {}),
                                     failList)
         IN  IF fetched.raised THEN fetched
             ELSE OldPages(order, p + 1, listed, days,
                           OldItems(Page(order, p), 1, listed, days, fetched), failList)

find_old_ebs_snapshots(order, listed, days, failList) ==
    LET start == [calls |-> <<>>, listings |-> 0, old |-> <<>>, raised |-> FALSE]
        owner == IssueListing(start, Call("get_caller_identity", <<"sts", 0>>, {}), failList)
    IN  OldPages(order, 1, listed, days, owner, failList)

ScanOldSnapshots ==
    \E order \in ListingsOf(ListedSnapshots(snapshots)),
       failList \in 0..MaxListingCalls,
       days \in RetentionChoices :
        LET found == find_old_ebs_snapshots(order, snapshots, days, failList)
        IN  /\ scan' = [status |-> IF found.raised THEN "raised" ELSE "returned",
                        calls |-> found.calls,
                        snapshot_days |-> days,
                        OldEBSSnapshots |-> IF found.raised THEN <<>> ELSE found.old,
                        parity |-> 1 - scan.parity]
            /\ UNCHANGED <<scriptVars, ec2Vars, default_tags, tagger, scheduler, snapVars, cleanup>>

InitScanner ==
    /\ NoEc2State
    /\ scheduler = NoSchedulerRun
    /\ InitSnapshots
    /\ retention_days = RetentionDaysUnset
    /\ dry_run = TRUE
    /\ cleanup = NoCleanupRun
    /\ scan = NoScan
    /\ NoScriptState

NextScanner == ScanOldSnapshots

SpecScanner == InitScanner /\ [][NextScanner]_vars

\* ---------------------------------------------------- utilization scans
\* CPU and memory utilization are counted in thousandths of a percent.
\* max_mem in get_right_sizing_recommendations, and its mem_threshold default.
SimulatedMaxMem == 30000

MemThresholdDefault == 40000

\* The datapoints CloudWatch may return for an instance, and the thresholds
\* a scan may be given.
DatapointLists ==
    {<<>>, <<3000>>, <<2996>>, <<5000>>, <<1000, 5000>>, <<3000, 3000>>, <<7000, 1000>>}

CpuThresholds == {3000, 5000}

\* The instances describe_instances returns under the scans' state filter.
RunningInstances(states) == {i \in InstanceIds : states[i] = "running"}

\* max(dp[...] for dp in datapoints)
MaxOf(datapoints) ==
    CHOOSE m \in {datapoints[k] : k \in 1..Len(datapoints)} :
        \A k \in 1..Len(datapoints) : datapoints[k] <= m

\* f"{value:.2f}%": the value rounded to hundredths, with two decimals.
FormatPercent(value) ==
    LET hundredths == RoundDiv(value, 10)
    IN  [whole |-> hundredths \div 100,
         decimals |-> <<(hundredths \div 10) % 10, hundredths % 10>>,
         unit |-> "%"]

\* (mutant: a value equal to the threshold counts as idle)
IsIdleOrEqual(avg_cpu, cpu_threshold) == avg_cpu <= cpu_threshold

\* avg_cpu < cpu_threshold
IsIdle(avg_cpu, cpu_threshold) == avg_cpu < cpu_threshold

\* max_cpu < cpu_threshold and max_mem < mem_threshold
IsOverProvisioned(max_cpu, cpu_threshold, max_mem, mem_threshold) ==
    max_cpu < cpu_threshold /\ max_mem < mem_threshold

\* What find_idle_ec2_instances does with an instance's datapoints.
IdleFinding(instance_id, datapoints, cpu_threshold) ==
    IF datapoints = <<>> THEN <<>>
    ELSE LET avg_cpu == MaxOf(datapoints)
         IN  IF IsIdle(avg_cpu, cpu_threshold)
             THEN <<[InstanceId |-> instance_id, Value |-> FormatPercent(avg_cpu)]>>
             ELSE <<>>

\* What get_right_sizing_recommendations does with an instance's datapoints.
SizingFinding(instance_id, datapoints, cpu_threshold, mem_threshold) ==
    IF datapoints = <<>> THEN <<>>
    ELSE LET max_cpu == MaxOf(datapoints)
             max_mem == SimulatedMaxMem
         IN  IF IsOverProvisioned(max_cpu, cpu_threshold, max_mem, mem_threshold)
             THEN <<[InstanceId |-> instance_id, Value |-> FormatPercent(max_cpu)]>>
             ELSE <<>>

\* The loop over one page: a metrics query per instance, then the predicate.
RECURSIVE UtilizationItems(_, _, _, _, _, _, _)
UtilizationItems(kind, page, i, metrics, cpu_threshold, acc, failAt) ==
    IF acc.raised \/ i > Len(page) THEN acc
    ELSE LET queried == Issue(acc, Call("get_metric_statistics", page[i], {}), failAt)
             finding == IF kind = "idle"
                        THEN IdleFinding(page[i], metrics[page[i]], cpu_threshold)
                        ELSE SizingFinding(page[i], metrics[page[i]], cpu_threshold,
                                           MemThresholdDefault)
         IN  IF queried.raised THEN queried
             ELSE UtilizationItems(kind, page, i + 1, metrics, cpu_threshold,
                                   [queried EXCEPT !.findings = @ \o finding], failAt)

RECURSIVE UtilizationPages(_, _, _, _, _, _, _)
UtilizationPages(kind, order, p, metrics, cpu_threshold, acc, failAt) ==
    IF acc.raised \/ p > NumPages(Len(order)) THEN acc
    ELSE LET fetched == Issue(acc, Call("describe_instances", <<"page", p>>, {}), failAt)
         IN  IF fetched.raised THEN fetched
             ELSE UtilizationPages(kind, order, p + 1, metrics, cpu_threshold,
                     UtilizationItems(kind, Page(order, p), 1, metrics, cpu_threshold,
                                      [fetched EXCEPT !.listed = @ \o Page(order, p)],
                                      failAt),
                     failAt)

NoFindings == [calls |-> <<>>, listed |-> <<>>, findings |-> <<>>, raised |-> FALSE]

find_idle_ec2_instances(order, metrics, cpu_threshold, failAt) ==
    UtilizationPages("idle", order, 1, metrics, cpu_threshold, NoFindings, failAt)

get_right_sizing_recommendations(order, metrics, cpu_threshold, failAt) ==
    UtilizationPages("rightsizing", order, 1, metrics, cpu_threshold, NoFindings, failAt)

\* The scan's record: its inputs, and its findings when it returned.
UtilizationRecord(kind, metrics, cpu_threshold, done) ==
    [kind |-> kind,
     status |-> IF done.raised THEN "raised" ELSE "returned",
     calls |-> done.calls,
     cpu_threshold |-> <<cpu_threshold>>,
     listed |-> done.listed,
     datapoints |-> <<metrics>>,
     findings |-> IF done.raised THEN <<>> ELSE done.findings,
     parity |-> 1 - idle.parity]

\* The idle-instance scan of unused_resources.py, run once.
IdleScan ==
    /\ idle.status = "none"
    /\ \E order \in ListingsOf(RunningInstances(instState)),
          metrics \in [InstanceIds -> DatapointLists],
          cpu_threshold \in CpuThresholds :
        \E failAt \in 0..Len(find_idle_ec2_instances(order, metrics, cpu_threshold, 0).calls) :
            /\ idle' = UtilizationRecord("idle", metrics, cpu_threshold,
                            find_idle_ec2_instances(order, metrics, cpu_threshold, failAt))
            /\ UNCHANGED <<ec2Vars, default_tags, tagger, scheduler, snapVars,
                           cleanup, scan, report, finder>>

\* The scan of rightsizing_recommendations.py, run once.
RightSizingScan ==
    /\ idle.status = "none"
    /\ \E order \in ListingsOf(RunningInstances(instState)),
          metrics \in [InstanceIds -> DatapointLists],
          cpu_threshold \in CpuThresholds :
        \E failAt \in 0..Len(get_right_sizing_recommendations(order, metrics,
                                                              cpu_threshold, 0).calls) :
            /\ idle' = UtilizationRecord("rightsizing", metrics, cpu_threshold,
                            get_right_sizing_recommendations(order, metrics,
                                                             cpu_threshold, failAt))
            /\ UNCHANGED <<ec2Vars, default_tags, tagger, scheduler, snapVars,
                           cleanup, scan, report, finder>>

\* -------------------------------------------------------- cost_analysis.py
\* Amounts are counted in thousandths of a dollar, Costs (round(cost, 2)) in
\* cents, Percentages (round(..., 2)) in hundredths of a percent.
NumPeriods == 2

\* The groups a Cost Explorer response may hold.
GroupKeys == {"EC2", "S3"}
GroupAmounts == {0, 50004, 100000}

KeyOrders == UNION {ListingsOf(K) : K \in SUBSET GroupKeys}

GroupLists ==
    UNION {{[i \in 1..Len(ks) |->
                [Keys |-> <<ks[i]>>, Amount |-> am[i], Unit |-> "USD"]] :
            am \in [1..Len(ks) -> GroupAmounts]} : ks \in KeyOrders}

\* response["ResultsByTime"]: one list of groups per period.
Responses == UNION {[1..n -> GroupLists] : n \in 0..NumPeriods}

\* The records analyze_costs appends for one period's groups.
PeriodRecords(period, groups, group_by_dimension) ==
    [i \in 1..Len(groups) |->
        [PeriodStart |-> period,
         Dimension |-> group_by_dimension,
         Value |-> groups[i].Keys[1],
         Cost |-> RoundDiv(groups[i].Amount, 10),
         Currency |-> groups[i].Unit,
         Percentage |-> <<>>]]

RECURSIVE ParseResults(_, _, _)
ParseResults(response, period, group_by_dimension) ==
    IF period > Len(response) THEN <<>>
    ELSE PeriodRecords(period, response[period], group_by_dimension)
            \o ParseResults(response, period + 1, group_by_dimension)

\* (mutant: the record goes before the first one that costs more)
InsertByCostAscending(sorted, record) ==
    LET k == Cardinality({i \in 1..Len(sorted) : sorted[i].Cost <= record.Cost})
    IN  SubSeq(sorted, 1, k) \o <<record>> \o SubSeq(sorted, k + 1, Len(sorted))

\* list.sort(key=Cost, reverse=True) is stable: a record goes after the
\* records that cost as much or more.
InsertByCost(sorted, record) ==
    LET k == Cardinality({i \in 1..Len(sorted) : sorted[i].Cost >= record.Cost})
    IN  SubSeq(sorted, 1, k) \o <<record>> \o SubSeq(sorted, k + 1, Len(sorted))

RECURSIVE SortByCost(_, _, _)
SortByCost(records, i, sorted) ==
    IF i > Len(records) THEN sorted
    ELSE SortByCost(records, i + 1, InsertByCost(sorted, records[i]))

analyze_costs(response, group_by_dimension) ==
    SortByCost(ParseResults(response, 1, group_by_dimension), 1, <<>>)

RECURSIVE calculate_total_cost(_)
calculate_total_cost(cost_records) ==
    IF cost_records = <<>> THEN 0
    ELSE Head(cost_records).Cost + calculate_total_cost(Tail(cost_records))

\* round((record["Cost"] / total_cost) * 100, 2)
PercentageOf(cost, total_cost) == <<RoundDiv(cost * 10000, total_cost)>>

calculate_percentage(cost_records) ==
    LET total_cost == calculate_total_cost(cost_records)
    IN  IF total_cost = 0 THEN cost_records
        ELSE [i \in 1..Len(cost_records) |->
                [cost_records[i] EXCEPT
                    !.Percentage = PercentageOf(cost_records[i].Cost, total_cost)]]

\* str.endswith on a path kept as its stem and its extension.
EndsWith(path, suffix) == path # <<>> /\ path[Len(path)] = suffix

\* --output: not given, or a path.
OutputPaths ==
    {<<>>, <<"report", ".csv">>, <<"report", ".json">>, <<"report", ".txt">>}

\* export_to_csv / export_to_json / neither, as main chooses by extension.
Export(output, cost_records, writeFails) ==
    IF EndsWith(output, ".csv")
    THEN IF cost_records = <<>>
         THEN [status |-> "exit0", error |-> "No cost data to export", written |-> <<>>]
         ELSE IF writeFails
         THEN [status |-> "exit1", error |-> "Error writing CSV file", written |-> <<>>]
         ELSE [status |-> "exit0", error |-> "none",
               written |-> <<[format |-> "csv", rows |-> cost_records]>>]
    ELSE IF EndsWith(output, ".json")
    THEN IF writeFails
         THEN [status |-> "exit1", error |-> "Error writing JSON file", written |-> <<>>]
         ELSE [status |-> "exit0", error |-> "none",
               written |-> <<[format |-> "json", rows |-> cost_records]>>]
    ELSE [status |-> "exit1",
          error |-> "Error: Output file must have .csv or .json extension",
          written |-> <<>>]

\* cost_analysis.py's main: the query, the percentages, the summary, the export.
CostMainRun(output, response, queryFails, writeFails) ==
    LET calls == <<Call("get_cost_and_usage", <<"ce", 0>>, {})>>
        cost_records == calculate_percentage(analyze_costs(response, "SERVICE"))
        exported == IF output = <<>>
                    THEN [status |-> "exit0", error |-> "none", written |-> <<>>]
                    ELSE Export(output, cost_records, writeFails)
    IN  IF queryFails
        THEN [status |-> "exit1", error |-> "Error querying Cost Explorer",
              calls |-> calls, records |-> <<>>, written |-> <<>>]
        ELSE [status |-> exported.status, error |-> exported.error,
              calls |-> calls, records |-> cost_records, written |-> exported.written]

\* The run of cost_analysis.py: a process that is started, and exits.
CostAnalysisMain ==
    /\ report.status = "none"
    /\ \E output \in OutputPaths, response \in Responses,
          queryFails \in BOOLEAN, writeFails \in BOOLEAN :
        LET run == CostMainRun(output, response, queryFails, writeFails)
        IN  /\ report' = [status |-> run.status, error |-> run.error,
                          calls |-> run.calls, output |-> output,
                          response |-> IF queryFails THEN <<>> ELSE response,
                          records |-> run.records, written |-> run.written,
                          parity |-> 1 - report.parity]
            /\ UNCHANGED <<ec2Vars, default_tags, tagger, scheduler, snapVars,
                           cleanup, scan, finder, idle>>

\* ----------------------------------------------------- unused_resources.py
RegionNames == {"us-east-1", "eu-west-1"}

\* The keys of scan_all's results, in the order it runs the scans, and the
\* listing call each scan starts with.
Categories ==
    <<"IdleEC2Instances", "UnattachedEBSVolumes", "UnusedElasticIPs", "OldEBSSnapshots">>

ScanCalls ==
    <<"describe_instances", "describe_volumes", "describe_addresses", "describe_snapshots">>

CategoryNames == {Categories[k] : k \in 1..Len(Categories)}

\* What a region holds: the categories in which its scan finds something.
FindingSets == {{}, {"IdleEC2Instances"}, CategoryNames}

\* The findings of one scan of scan_all in a region.
SubScan(category, region, found) ==
    IF category \in found[region]
    THEN <<[Region |-> region, Finding |-> category]>>
    ELSE <<>>

NoResults == [c \in CategoryNames |-> <<>>]

\* scan_all: the four scans in order; failAt is the scan that raises (0: none).
RECURSIVE ScanCategories(_, _, _, _, _)
ScanCategories(region, k, found, failAt, acc) ==
    IF acc.raised \/ k > Len(Categories) THEN acc
    ELSE LET called == [acc EXCEPT !.calls = Append(@, Call(ScanCalls[k], region, {})),
                                   !.raised = (k = failAt)]
         IN  IF called.raised THEN called
             ELSE ScanCategories(region, k + 1, found, failAt,
                     [called EXCEPT !.results[Categories[k]] =
                                        SubScan(Categories[k], region, found)])

scan_all(region, found, failAt, calls) ==
    ScanCategories(region, 1, found, failAt,
                   [calls |-> calls, results |-> NoResults, raised |-> FALSE])

\* (mutant: the findings a failed region's scans had returned are kept)
ExtendResultsAlways(acc, region, scanned) ==
    [acc EXCEPT !.calls = scanned.calls,
                !.scanned = Append(@, region),
                !.failed = IF scanned.raised
                           THEN @ \cup {<<region, Len(scanned.calls) - Len(acc.calls)>>}
                           ELSE @,
                !.all_results = [c \in CategoryNames |-> @[c] \o scanned.results[c]]]

\* The body of main's loop over the regions: try scan_all and extend
\* all_results; except Exception: report the region and go on.  failed keeps
\* each region whose scan raised, with the number of the scan that did.
ExtendResults(acc, region, scanned) ==
    IF scanned.raised
    THEN [acc EXCEPT !.calls = scanned.calls,
                     !.scanned = Append(@, region),
                     !.failed = @ \cup {<<region, Len(scanned.calls) - Len(acc.calls)>>}]
    ELSE [acc EXCEPT !.calls = scanned.calls,
                     !.scanned = Append(@, region),
                     !.all_results = [c \in CategoryNames |-> @[c] \o scanned.results[c]]]

\* (mutant: the loop over the regions ends at the first region that fails)
RECURSIVE ScanRegionsUntilFailure(_, _, _, _, _)
ScanRegionsUntilFailure(regions, i, found, failAt, acc) ==
    IF i > Len(regions) \/ acc.failed # {} THEN acc
    ELSE ScanRegionsUntilFailure(regions, i + 1, found, failAt,
            ExtendResults(acc, regions[i],
                          scan_all(regions[i], found, failAt[regions[i]], acc.calls)))

RECURSIVE ScanRegions(_, _, _, _, _)
ScanRegions(regions, i, found, failAt, acc) ==
    IF i > Len(regions) THEN acc
    ELSE ScanRegions(regions, i + 1, found, failAt,
            ExtendResults(acc, regions[i],
                          scan_all(regions[i], found, failAt[regions[i]], acc.calls)))

\* --region and --all-regions as given on the command line.
RegionArgs ==
    [region : {<<>>, <<"us-east-1">>}, all_regions : BOOLEAN]

\* unused_resources.py's main.
FinderMainRun(args, listing, found, regionsFail, failAt, writeFails) ==
    LET listed == Call("describe_regions", <<"ec2", 0>>, {})
        regions == IF args.region # <<>> THEN args.region ELSE listing
        calls == IF args.region # <<>> THEN <<>> ELSE <<listed>>
        done == ScanRegions(regions, 1, found, failAt,
                            [calls |-> calls, scanned |-> <<>>, failed |-> {},
                             all_results |-> NoResults])
    IN  IF args.region = <<>> /\ ~args.all_regions
        THEN [status |-> "exit1", calls |-> <<>>, scanned |-> <<>>, failed |-> {},
              all_results |-> <<>>, written |-> <<>>]
        ELSE IF args.region = <<>> /\ regionsFail
        THEN [status |-> "raised", calls |-> <<listed>>, scanned |-> <<>>, failed |-> {},
              all_results |-> <<>>, written |-> <<>>]
        ELSE [status |-> IF writeFails THEN "exit1" ELSE "exit0",
              calls |-> done.calls, scanned |-> done.scanned, failed |-> done.failed,
              all_results |-> <<done.all_results>>,
              written |-> IF writeFails THEN <<>> ELSE <<done.all_results>>]

\* The run of unused_resources.py: a process that is started, and exits.
UnusedResourcesMain ==
    /\ finder.status = "none"
    /\ \E args \in RegionArgs, listing \in ListingsOf(RegionNames),
          found \in [RegionNames -> FindingSets],
          regionsFail \in BOOLEAN, writeFails \in BOOLEAN,
          failAt \in [RegionNames -> 0..Len(Categories)] :
        LET run == FinderMainRun(args, listing, found, regionsFail, failAt, writeFails)
        IN  /\ finder' = [status |-> run.status, args |-> <<args>>, calls |-> run.calls,
                          scanned |-> run.scanned, failed |-> run.failed,
                          found |-> <<found>>, all_results |-> run.all_results,
                          written |-> run.written, parity |-> 1 - finder.parity]
            /\ UNCHANGED <<ec2Vars, default_tags, tagger, scheduler, snapVars,
                           cleanup, scan, report, idle>>

\* --------------------------------------------------------- specifications
InitScheduler ==
    /\ instState \in [InstanceIds -> {"running", "stopped"}]
    /\ resTags \in [TaggableIds -> TagSetsOver(SchedulerTagPairs)]
    /\ \A v \in VolumeIds : resTags[v] = {}
    /\ default_tags = DefaultTagsUnset
    /\ tagger = NoRun
    /\ scheduler = NoSchedulerRun
    /\ NoSnapshotState
    /\ NoScriptState

NextScheduler == SchedulerHandler \/ InstanceSettles

SpecScheduler == InitScheduler /\ [][NextScheduler]_vars

InitTagger ==
    /\ instState \in [InstanceIds -> TaggerInitStates]
    /\ resTags \in [TaggableIds -> TagSetsOver(InitialTagPairs)]
    \* a terminated instance is never listed: its tags are left out
    /\ \A i \in InstanceIds : instState[i] = "terminated" => resTags[i] = {}
    /\ default_tags \in SUBSET DefaultTagsUnset
    /\ tagger = NoRun
    /\ scheduler = NoSchedulerRun
    /\ NoSnapshotState
    /\ NoScriptState

NextTagger == TaggerHandler

SpecTagger == InitTagger /\ [][NextTagger]_vars

\* The two functions that change instances and volumes without deleting
\* anything.  They are deployed apart and share no state: a behaviour runs
\* one of them, on the resources of either specification above (the tagger
\* with the tags it has when DEFAULT_TAGS is not set, the scheduler with
\* instances tagged for it or not at all).
InitMutators ==
    \/ InitTagger /\ default_tags = DefaultTagsUnset
    \/ InitScheduler /\ \A i \in InstanceIds : <<TagKeyUnset, "off">> \notin resTags[i]

NextMutators ==
    \/ scheduler.status = "none" /\ TaggerHandler
    \/ tagger.status = "none" /\ SchedulerHandler
    \/ tagger.status = "none" /\ InstanceSettles

SpecMutators == InitMutators /\ [][NextMutators]_vars

\* Nothing in the accounts: the state of the units a specification leaves out.
NoRemoteState ==
    /\ NoEc2State
    /\ scheduler = NoSchedulerRun
    /\ NoSnapshotState

\* The two command-line scripts that validate their arguments.  They are
\* separate programs: a behaviour runs one of them.
InitCli == NoRemoteState /\ NoScriptState

NextCli ==
    \/ finder.status = "none" /\ CostAnalysisMain
    \/ report.status = "none" /\ UnusedResourcesMain

SpecCli == InitCli /\ [][NextCli]_vars

\* The units whose remote calls may fail: the tagger, the scheduler and
\* unused_resources.py.  A behaviour runs one of them.
InitFailures ==
    \/ InitTagger /\ default_tags = DefaultTagsUnset
    \/ InitScheduler /\ \A i \in InstanceIds : resTags[i] \subseteq {<<TagKeyUnset, "stop">>}

NextFailures ==
    \/ scheduler.status = "none" /\ finder.status = "none" /\ TaggerHandler
    \/ tagger.status = "none" /\ finder.status = "none" /\ SchedulerHandler
    \/ tagger.status = "none" /\ finder.status = "none" /\ InstanceSettles
    \/ NoRemoteState /\ UnusedResourcesMain

SpecFailures == InitFailures /\ [][NextFailures]_vars

\* The two utilization scans, on instances that run or are stopped.
InitUtilization ==
    /\ instState \in [InstanceIds -> {"running", "stopped"}]
    /\ resTags = [r \in TaggableIds |-> {}]
    /\ default_tags = DefaultTagsUnset
    /\ tagger = NoRun
    /\ scheduler = NoSchedulerRun
    /\ NoSnapshotState
    /\ NoScriptState

NextUtilization == IdleScan \/ RightSizingScan

SpecUtilization == InitUtilization /\ [][NextUtilization]_vars

\* The units with a threshold predicate: the utilization scans, the snapshot
\* cleanup (as deployed: a dry run) and the old-snapshot scan.  A behaviour
\* runs one of them.
InitThresholds == InitUtilization \/ InitScanner

NextThresholds ==
    \/ cleanup.status = "none" /\ scan.status = "none" /\ IdleScan
    \/ cleanup.status = "none" /\ scan.status = "none" /\ RightSizingScan
    \/ idle.status = "none" /\ scan.status = "none" /\ CleanupHandler
    \/ idle.status = "none" /\ cleanup.status = "none" /\ ScanOldSnapshots

SpecThresholds == InitThresholds /\ [][NextThresholds]_vars

\* ------------------------------------------------------------------ claims
\* The positions of the calls of a log with the given operation (and target).
CallsOf(calls, op) == {k \in 1..Len(calls) : calls[k].op = op}
CallsTo(calls, op, target) == {k \in CallsOf(calls, op) : calls[k].target = target}
Elems(seq) == {seq[k] : k \in 1..Len(seq)}

\* The desired pairs (k, D[k]) whose key k the resource does not carry.
MissingPairs(desired, existing) == {t \in desired : \A e \in existing : e[1] # t[1]}

\* Whether the tagger's listings return the resource.
ListedByTagger(r) == r \in VolumeIds \/ instState[r] \in {"running", "stopped"}

\* C1: in a tagger run, the tags sent to create_tags for a listed resource R
\* are exactly the desired pairs whose key R does not carry: R gets at most
\* one call, a call only when that delta is not empty and always when it is
\* not (in a run that completes), and the run leaves every tag R had as it
\* was and adds nothing but the delta.
C1_TagDeltaExact ==
    [][tagger'.parity # tagger.parity =>
        \A r \in TaggableIds :
            LET sent == CallsTo(tagger'.calls, "create_tags", r)
                delta == MissingPairs(default_tags, resTags[r])
            IN  /\ \A k \in sent : tagger'.calls[k].tags = delta
                /\ Cardinality(sent) <= 1
                /\ sent # {} => (ListedByTagger(r) /\ delta # {})
                /\ (tagger'.status = "200" /\ ListedByTagger(r) /\ delta # {}) => sent # {}
                /\ resTags[r] \subseteq resTags'[r]
                /\ resTags'[r] \subseteq resTags[r] \cup delta]_vars

\* C1's case: a completed run sent only Owner to a resource that carries
\* Environment with a value other than the desired one, which it still has.
C1_Witness ==
    /\ tagger.status = "200"
    /\ <<"Environment", "Untagged">> \in default_tags
    /\ \E k \in CallsOf(tagger.calls, "create_tags") :
        /\ tagger.calls[k].tags = {<<"Owner", "Unknown">>}
        /\ <<"Environment", "prod">> \in resTags[tagger.calls[k].target]

\* C2: a resource that carries every desired key gets no create_tags call
\* and is in neither returned list; and a run that starts where a completed
\* run left the resources issues no create_tags call and, when it completes,
\* returns empty Instances and Volumes lists.
C2_TaggingIdempotent ==
    [][tagger'.parity # tagger.parity =>
        /\ \A r \in TaggableIds :
            ({t[1] : t \in default_tags} \subseteq {e[1] : e \in resTags[r]}) =>
                /\ CallsTo(tagger'.calls, "create_tags", r) = {}
                /\ r \notin Elems(tagger'.Instances) \cup Elems(tagger'.Volumes)
        /\ tagger.status = "200" =>
            /\ CallsOf(tagger'.calls, "create_tags") = {}
            /\ tagger'.status = "200" =>
                (tagger'.Instances = <<>> /\ tagger'.Volumes = <<>>)]_vars

\* C2's case: a resource carries a tag only the tagger gives (an earlier run
\* tagged it), and the last run completed without a create_tags call and
\* returned two empty lists.
C2_Witness ==
    /\ tagger.status = "200"
    /\ CallsOf(tagger.calls, "create_tags") = {}
    /\ tagger.Instances = <<>> /\ tagger.Volumes = <<>>
    /\ \E r \in InstanceIds : instState[r] = "running" /\ <<"Owner", "Unknown">> \in resTags[r]

\* Whether the snapshot is older than the retention window / carries Retain.
OlderThanRetention(s) == UtcNow - snapshots[s].StartTime > retention_days
CarriesRetain(s) == \E t \in snapshots[s].Tags : t[1] = "Retain"

\* C3: a dry run of the cleanup calls delete_snapshot for no snapshot, and
\* when it returns, every snapshot of the account that is older than the
\* retention window and carries no Retain tag is in DeletedSnapshots.
C3_DryRunNeverDeletes ==
    (cleanup.status # "none" /\ cleanup.DryRun) =>
        /\ CallsOf(cleanup.calls, "delete_snapshot") = {}
        /\ cleanup.status = "200" =>
            \A s \in SnapshotIds :
                (snapshots[s].exists /\ OlderThanRetention(s) /\ ~CarriesRetain(s))
                    => s \in Elems(cleanup.DeletedSnapshots)

\* C3's case: the snapshot started 45 days ago, the retention is 30 days, it
\* has no Retain tag, and the dry run that returned lists it.
C3_Witness ==
    /\ cleanup.status = "200" /\ cleanup.DryRun
    /\ retention_days = 30
    /\ \E s \in SnapshotIds :
        /\ snapshots[s].exists /\ snapshots[s].StartTime = UtcNow - 45
        /\ ~CarriesRetain(s)
        /\ s \in Elems(cleanup.DeletedSnapshots)

\* The last run was a dry run that returned, and this step is a run that is
\* not dry, returns, and was listed the same snapshots in the same order.
DryThenReal ==
    /\ cleanup.status = "200" /\ cleanup.DryRun
    /\ cleanup'.parity # cleanup.parity
    /\ cleanup'.status = "200" /\ ~cleanup'.DryRun
    /\ cleanup'.listed = cleanup.listed

\* C4 as stated: on the same input state, whatever the delete calls' outcomes,
\* the list the run that is not dry returns is the list the dry run returned.
C4_DryRunListIsRealList ==
    [][DryThenReal => cleanup'.DeletedSnapshots = cleanup.DeletedSnapshots]_vars

\* C4 amended: on the same input state, the run that is not dry calls
\* delete_snapshot for every id of the dry run's list and returns that list
\* without the ids whose delete failed (the snapshot is still there), in the
\* same order; the two lists are the same when every delete succeeds.
C4_RealListIsDryRunListMinusFailures ==
    [][DryThenReal =>
        LET Gone(s) == ~snapshots'[s].exists
        IN  /\ cleanup'.DeletedSnapshots = SelectSeq(cleanup.DeletedSnapshots, Gone)
            /\ \A s \in Elems(cleanup.DeletedSnapshots) :
                CallsTo(cleanup'.calls, "delete_snapshot", s) # {}
            /\ (\A s \in Elems(cleanup.DeletedSnapshots) : Gone(s))
                => cleanup'.DeletedSnapshots = cleanup.DeletedSnapshots]_vars

\* C4's case: a run that is not dry returned fewer ids than it issued delete
\* calls, and at least one.
C4_Witness ==
    /\ cleanup.status = "200" /\ ~cleanup.DryRun
    /\ cleanup.DeletedSnapshots # <<>>
    /\ Len(cleanup.DeletedSnapshots)
        < Cardinality(CallsOf(cleanup.calls, "delete_snapshot"))

\* C5: a snapshot that carries a tag with the key Retain, whatever the value,
\* its age, the retention and the dry-run flag, is never the target of a
\* delete_snapshot call, is never in the returned list, and stays.
C5_RetainIsNeverDeleted ==
    \A s \in SnapshotIds :
        CarriesRetain(s) =>
            /\ snapshots[s].exists
            /\ CallsTo(cleanup.calls, "delete_snapshot", s) = {}
            /\ s \notin Elems(cleanup.DeletedSnapshots)

\* C5's case: a run that is not dry returned after deleting a snapshot, and
\* was listed a snapshot older than the retention whose Retain tag says false.
C5_Witness ==
    /\ cleanup.status = "200" /\ ~cleanup.DryRun
    /\ CallsOf(cleanup.calls, "delete_snapshot") # {}
    /\ \E s \in Elems(cleanup.listed) :
        <<"Retain", "false">> \in snapshots[s].Tags /\ OlderThanRetention(s)

\* C6 as stated: a snapshot that carries the Retain tag is never among the
\* OldEBSSnapshots findings of the unused-resources scanner.
C6_RetainIsNeverReportedOld ==
    \A s \in SnapshotIds : CarriesRetain(s) => s \notin Elems(scan.OldEBSSnapshots)

\* The targets of a log's calls with the given operations, in order.
RECURSIVE TargetsOf(_, _)
TargetsOf(calls, ops) ==
    IF calls = <<>> THEN <<>>
    ELSE (IF Head(calls).op \in ops THEN <<Head(calls).target>> ELSE <<>>)
             \o TargetsOf(Tail(calls), ops)

\* Whether the scheduler's run got its whole match list: no remote call
\* raised, or only the stop or start call itself did.
SchedulerListed ==
    /\ scheduler.selector \in {"absent", "stop", "start"}
    /\ \/ scheduler.error # "remote"
       \/ TargetsOf(scheduler.calls, {"stop_instances", "start_instances"}) # <<>>

\* C7 as stated: a run of the tagger, and a run of the scheduler's stop or
\* start, issues one mutating call covering every matched id when the match
\* list is not empty, and none when it is empty.
C7_OneBulkCallPerRun ==
    /\ tagger.status = "200" =>
            TargetsOf(tagger.calls, {"create_tags"})
                = IF tagger.Instances \o tagger.Volumes = <<>> THEN <<>>
                  ELSE <<tagger.Instances \o tagger.Volumes>>
    /\ SchedulerListed =>
            TargetsOf(scheduler.calls, {"stop_instances", "start_instances"})
                = IF scheduler.matched = <<>> THEN <<>> ELSE <<scheduler.matched>>

\* C7 amended: a run of the scheduler's stop or start issues one stop or start
\* call covering every matched instance when the match list is not empty, and
\* none when it is empty (or was never completed); a run of the tagger issues
\* one create_tags call for each resource it tags, in the order it returns
\* them, each call for that resource alone, and none when it tags nothing.
C7_OneCallPerTaggedResource ==
    /\ tagger.status = "200" =>
            TargetsOf(tagger.calls, {"create_tags"}) = tagger.Instances \o tagger.Volumes
    /\ SchedulerListed =>
            /\ TargetsOf(scheduler.calls, {"stop_instances", "start_instances"})
                    = IF scheduler.matched = <<>> THEN <<>> ELSE <<scheduler.matched>>
            /\ TargetsOf(scheduler.calls,
                    {IF scheduler.selector = "start" THEN "stop_instances"
                     ELSE "start_instances"}) = <<>>
    /\ ~SchedulerListed =>
            TargetsOf(scheduler.calls, {"stop_instances", "start_instances"}) = <<>>

\* C7's cases: a scheduler run matched two instances and stopped them with
\* one call; a tagger run tagged two instances with two calls.
C7_Witness ==
    \/ /\ scheduler.selector = "stop"
       /\ Len(scheduler.matched) = 2
       /\ TargetsOf(scheduler.calls, {"stop_instances"}) = <<scheduler.matched>>
       /\ \A i \in Elems(scheduler.matched) : instState[i] = "stopping"
    \/ /\ tagger.status = "200"
       /\ Len(tagger.Instances) = 2
       /\ Len(TargetsOf(tagger.calls, {"create_tags"})) >= 2

\* C8: in a run that is not dry, every snapshot listed that is older than the
\* retention and carries no Retain tag gets exactly one delete_snapshot call
\* and no other snapshot gets any, also after a delete has failed; a run that
\* raises does so on a listing call, never on a delete; and a run that
\* returns (200) returns, in listing order, exactly the snapshots it deleted.
C8_DeleteFailuresAreIsolated ==
    [][(cleanup'.parity # cleanup.parity /\ ~dry_run) =>
        LET Eligible(s) ==
                snapshots[s].exists /\ OlderThanRetention(s) /\ ~CarriesRetain(s)
            Deleted(s) == Eligible(s) /\ ~snapshots'[s].exists
        IN  /\ \A s \in SnapshotIds :
                Cardinality(CallsTo(cleanup'.calls, "delete_snapshot", s))
                    = IF s \in Elems(cleanup'.listed) /\ Eligible(s) THEN 1 ELSE 0
            /\ cleanup'.status \in {"200", "raised"}
            /\ cleanup'.status = "raised" =>
                cleanup'.calls[Len(cleanup'.calls)].op # "delete_snapshot"
            /\ cleanup'.status = "200" =>
                /\ Elems(cleanup'.listed) = {s \in SnapshotIds : snapshots[s].exists}
                /\ cleanup'.DeletedSnapshots = SelectSeq(cleanup'.listed, Deleted)]_vars

\* C8's case: the run's first delete failed (the snapshot is still there), a
\* later delete succeeded, and the run returned 200 with the later one only.
C8_Witness ==
    /\ cleanup.status = "200" /\ ~cleanup.DryRun
    /\ \E j, k \in CallsOf(cleanup.calls, "delete_snapshot") :
        /\ j < k
        /\ snapshots[cleanup.calls[j].target].exists
        /\ ~snapshots[cleanup.calls[k].target].exists
        /\ cleanup.DeletedSnapshots = <<cleanup.calls[k].target>>

\* C9 as stated: a run with the selector stop or start, or with none, all of
\* whose remote calls succeed, returns 200 with the ids it stopped or started.
C9_StopStartReturns200 ==
    (scheduler.selector \in {"absent", "stop", "start"} /\ scheduler.error # "remote") =>
        /\ scheduler.status = "200"
        /\ scheduler.key \in {"StoppedInstances", "StartedInstances"}
        /\ scheduler.ids = scheduler.matched

\* C10: a run with a selector other than stop or start returns 400 and issues
\* no remote call: no listing, no stop, no start.
C10_InvalidSelectorIs400 ==
    (scheduler.selector \notin {"none", "absent", "stop", "start"}) =>
        /\ scheduler.status = "400"
        /\ scheduler.calls = <<>>

\* C10's case: the selector was restart while a running instance carried the
\* stop tag, and the run returned 400.
C10_Witness ==
    /\ scheduler.selector = "restart"
    /\ scheduler.status = "400"
    /\ \E i \in InstanceIds :
        instState[i] = "running" /\ <<TagKeyUnset, "stop">> \in resTags[i]

\* Whether --output names a file whose extension is neither .csv nor .json.
BadOutput(path) == path # <<>> /\ ~EndsWith(path, ".csv") /\ ~EndsWith(path, ".json")

\* Whether the run was given neither --region nor --all-regions.
NoRegionSelector(args) == \A k \in 1..Len(args) : args[k].region = <<>> /\ ~args[k].all_regions

\* C11 as stated: a run of cost_analysis.py whose --output ends in neither
\* .csv nor .json, and a run of unused_resources.py given neither --region
\* nor --all-regions, exits with status 1 without having issued a remote call.
C11_ValidationBeforeRemoteCalls ==
    /\ (report.status # "none" /\ BadOutput(report.output)) =>
            (report.status = "exit1" /\ report.calls = <<>>)
    /\ (finder.status # "none" /\ NoRegionSelector(finder.args)) =>
            (finder.status = "exit1" /\ finder.calls = <<>>)

\* The calls of a log that go to the given target, in order.
CallsAt(calls, target) == SelectSeq(calls, LAMBDA c : c.target = target)

\* The regions of the pairs in a finder run's failed set.
FailedRegions(run) == {f[1] : f \in run.failed}

\* The tags after the create_tags calls of a log have taken effect.
RECURSIVE TagsAfter(_, _)
TagsAfter(tags, calls) ==
    IF calls = <<>> THEN tags
    ELSE TagsAfter(IF Head(calls).op = "create_tags"
                   THEN [tags EXCEPT ![Head(calls).target] =
                            {e \in @ : \A t \in Head(calls).tags : t[1] # e[1]}
                                \cup Head(calls).tags]
                   ELSE tags,
                   Tail(calls))

\* C12 as stated: in the tagger, the scheduler and unused_resources.py alike,
\* a run in which a listing, tagging, stop or start call failed has raised:
\* it returned no body and wrote no output file.
C12_RemoteFailureAbortsEveryUnit ==
    /\ tagger.status = "raised" => (tagger.Instances = <<>> /\ tagger.Volumes = <<>>)
    /\ scheduler.error = "remote" => (scheduler.status = "raised" /\ scheduler.ids = <<>>)
    /\ finder.failed # {} => (finder.status = "raised" /\ finder.written = <<>>)

\* C12 amended: in the tagger and the scheduler a failed remote call aborts
\* the run: the run raises, returns no body, and leaves the remote state as
\* the calls before the failed one made it; in unused_resources.py a failed
\* describe_regions aborts the run as well (nothing scanned, nothing
\* written), but a failure while a region is scanned is caught: that region
\* gets no call after the failed one and adds no finding, every region is
\* still scanned, and the run goes on to write the output file.
C12_FailureAbortsUnlessCaughtPerRegion ==
    [][/\ (tagger'.parity # tagger.parity /\ tagger'.status = "raised") =>
            /\ tagger'.Instances = <<>> /\ tagger'.Volumes = <<>>
            /\ tagger'.calls # <<>>
            /\ resTags' = TagsAfter(resTags, SubSeq(tagger'.calls, 1, Len(tagger'.calls) - 1))
       /\ (scheduler'.parity # scheduler.parity /\ scheduler'.error = "remote") =>
            /\ scheduler'.status = "raised" /\ scheduler'.ids = <<>>
            /\ scheduler'.calls # <<>>
            /\ instState' = instState
       /\ finder'.parity # finder.parity =>
            /\ finder'.status = "raised" =>
                /\ finder'.calls = <<Call("describe_regions", <<"ec2", 0>>, {})>>
                /\ finder'.scanned = <<>> /\ finder'.written = <<>>
            /\ \A f \in finder'.failed :
                /\ Len(CallsAt(finder'.calls, f[1])) = f[2]
                /\ \A c \in CategoryNames :
                        \A k \in 1..Len(finder'.all_results[1][c]) :
                            finder'.all_results[1][c][k].Region # f[1]
            /\ finder'.failed # {} =>
                /\ finder'.status \in {"exit0", "exit1"}
                /\ finder'.status = "exit0" => finder'.written = finder'.all_results
                /\ finder'.args[1].region # <<>> => finder'.scanned = finder'.args[1].region
                /\ finder'.args[1].region = <<>> =>
                        Elems(finder'.scanned) = RegionNames]_vars

\* C12's case: the scan of the first region raised at its second call, the
\* second region was then scanned with all four calls, and the output file
\* was written with the second region's findings only.
C12_Witness ==
    /\ finder.status = "exit0"
    /\ Len(finder.scanned) = 2
    /\ finder.failed = {<<finder.scanned[1], 2>>}
    /\ Len(CallsAt(finder.calls, finder.scanned[2])) = Len(Categories)
    /\ finder.written # <<>>
    /\ \A c \in CategoryNames :
        /\ finder.written[1][c] # <<>>
        /\ \A k \in 1..Len(finder.written[1][c]) :
                finder.written[1][c][k].Region = finder.scanned[2]

\* The instances the last utilization scan flagged, and an instance's
\* datapoints in that scan.
FlaggedIds == {idle.findings[k].InstanceId : k \in 1..Len(idle.findings)}
ScanDatapoints(i) == idle.datapoints[1][i]

\* C13: a utilization scan that returns flags a listed instance exactly when
\* the CPU value it derives from the instance's datapoints (their maximum) is
\* strictly below the CPU threshold, so never at a value equal to it, and
\* flags no instance without datapoints; and a snapshot the cleanup or the
\* old-snapshot scan lists started strictly before now minus the retention.
C13_ThresholdsAreStrict ==
    /\ idle.status = "returned" =>
        /\ FlaggedIds \subseteq Elems(idle.listed)
        /\ \A i \in Elems(idle.listed) :
            /\ ScanDatapoints(i) = <<>> => i \notin FlaggedIds
            /\ ScanDatapoints(i) # <<>> =>
                /\ MaxOf(ScanDatapoints(i)) < idle.cpu_threshold[1] => i \in FlaggedIds
                /\ MaxOf(ScanDatapoints(i)) >= idle.cpu_threshold[1] => i \notin FlaggedIds
    /\ cleanup.status = "200" =>
        \A s \in Elems(cleanup.DeletedSnapshots) :
            /\ snapshots[s].StartTime < UtcNow - retention_days
            /\ snapshots[s].StartTime # UtcNow - retention_days
    /\ scan.status = "returned" =>
        \A s \in Elems(scan.OldEBSSnapshots) :
            /\ snapshots[s].StartTime < UtcNow - scan.snapshot_days
            /\ snapshots[s].StartTime # UtcNow - scan.snapshot_days

\* C13's case: a scan with the threshold 5 listed an instance whose value is
\* exactly 5 and did not flag it, and flagged another whose value is 3.
C13_Witness ==
    /\ idle.status = "returned"
    /\ idle.cpu_threshold = <<5000>>
    /\ \E i, j \in Elems(idle.listed) :
        /\ ScanDatapoints(i) = <<5000>> /\ i \notin FlaggedIds
        /\ ScanDatapoints(j) = <<3000>> /\ j \in FlaggedIds

\* The average of an instance's datapoints.
RECURSIVE SumOf(_)
SumOf(datapoints) ==
    IF datapoints = <<>> THEN 0 ELSE Head(datapoints) + SumOf(Tail(datapoints))

AverageOf(datapoints) == SumOf(datapoints) \div Len(datapoints)

\* C14 as stated: the idle-instance scan that returns has, for every running
\* instance whose datapoints average to less than cpu_threshold, a finding
\* whose Value is that average with two decimals.
C14_IdleValueIsTheAverage ==
    (idle.kind = "idle" /\ idle.status = "returned") =>
        \A i \in Elems(idle.listed) :
            (ScanDatapoints(i) # <<>> /\ AverageOf(ScanDatapoints(i)) < idle.cpu_threshold[1])
                => \E k \in 1..Len(idle.findings) :
                    /\ idle.findings[k].InstanceId = i
                    /\ idle.findings[k].Value = FormatPercent(AverageOf(ScanDatapoints(i)))


\* The number of groups a response holds over all its periods.
RECURSIVE NumGroups(_)
NumGroups(response) ==
    IF response = <<>> THEN 0 ELSE Len(Head(response)) + NumGroups(Tail(response))

\* p (hundredths of a percent) is cost / total * 100 to the nearest hundredth.
IsShareOf(p, cost, total) ==
    LET d == p * total - cost * 10000
    IN  2 * d <= total /\ 2 * (0 - d) <= total

\* C15: when the query returned groups with a non-zero total, the report
\* holds one record per group, in non-increasing order of Cost, and each
\* record's Percentage is its Cost over the sum of all Costs, times 100, to
\* two decimals.
C15_ReportSortedWithShares ==
    (/\ report.status # "none"
     /\ report.error # "Error querying Cost Explorer"
     /\ calculate_total_cost(report.records) # 0) =>
        /\ Len(report.records) = NumGroups(report.response)
        /\ \A i, j \in 1..Len(report.records) :
            i < j => report.records[i].Cost >= report.records[j].Cost
        /\ \A i \in 1..Len(report.records) :
            /\ report.records[i].Percentage # <<>>
            /\ IsShareOf(report.records[i].Percentage[1], report.records[i].Cost,
                         calculate_total_cost(report.records))

\* C15's case: the query returned the 50.00 group before the 100.00 group,
\* and the report lists 100.00 with 66.67 first, then 50.00 with 33.33.
C15_Witness ==
    /\ report.status = "exit0"
    /\ Len(report.response) = 1
    /\ Len(report.response[1]) = 2
    /\ report.response[1][1].Amount = 50004
    /\ report.response[1][2].Amount = 100000
    /\ Len(report.records) = 2
    /\ report.records[1].Cost = 10000 /\ report.records[1].Percentage = <<6667>>
    /\ report.records[2].Cost = 5000 /\ report.records[2].Percentage = <<3333>>
    /\ report.records[1].Value = report.response[1][2].Keys[1]


\* The state a stopped (started) instance reaches, and the tag an action
\* selects.
SettledState(action) == IF action = "stop" THEN "stopped" ELSE "running"
TargetState(action) == IF action = "stop" THEN "running" ELSE "stopped"
BulkOp(action) == IF action = "stop" THEN "stop_instances" ELSE "start_instances"

\* An invocation of the scheduler repeats the action of the one before it,
\* whose remote calls succeeded and whose targets have all settled.
SchedulerRepeats ==
    /\ scheduler'.parity # scheduler.parity
    /\ scheduler.status # "none"
    /\ scheduler.error # "remote"
    /\ EventAction(scheduler.selector) \in {"stop", "start"}
    /\ EventAction(scheduler'.selector) = EventAction(scheduler.selector)
    /\ \A k \in 1..Len(scheduler.matched) :
        instState[scheduler.matched[k]] = SettledState(EventAction(scheduler.selector))

\* C16: a stop call targets only running instances tagged stop and a start
\* call only stopped instances tagged start; and an invocation that repeats
\* the action of the one before it, once that one's targets have settled,
\* matches nothing, issues no stop or start call, returns the empty list and
\* leaves every instance as it is.
C16_RerunIsIdempotent ==
    [][/\ scheduler'.parity # scheduler.parity =>
            \A action \in {"stop", "start"} :
                \A k \in 1..Len(scheduler'.calls) :
                    scheduler'.calls[k].op = BulkOp(action) =>
                        \A i \in Elems(scheduler'.calls[k].target) :
                            /\ instState[i] = TargetState(action)
                            /\ <<TagKeyUnset, action>> \in resTags[i]
       /\ SchedulerRepeats =>
            /\ scheduler'.matched = <<>>
            /\ \A k \in 1..Len(scheduler'.calls) :
                scheduler'.calls[k].op = "describe_instances"
            /\ instState' = instState]_vars

\* C16's case: the scheduler stopped an instance, the instance has reached
\* stopped, and the last invocation, a stop again, listed one empty page and
\* called nothing else.
C16_Witness ==
    /\ EventAction(scheduler.selector) = "stop"
    /\ scheduler.error # "remote"
    /\ scheduler.matched = <<>>
    /\ Len(scheduler.calls) = 1
    /\ \E i \in scheduler.stopped :
        /\ instState[i] = "stopped"
        /\ <<TagKeyUnset, "stop">> \in resTags[i]

\* C18: the instances the scheduler has stopped all carry the tag value stop,
\* those it has started all carry start, and no instance is in both sets: an
\* instance tagged stop that the scheduler stopped is never started by it.
C18_StopAndStartTargetsDisjoint ==
    /\ \A i \in scheduler.stopped : <<TagKeyUnset, "stop">> \in resTags[i]
    /\ \A i \in scheduler.started : <<TagKeyUnset, "start">> \in resTags[i]
    /\ scheduler.stopped \cap scheduler.started = {}
    /\ \A k \in 1..Len(scheduler.calls) :
        scheduler.calls[k].op = "start_instances" =>
            \A i \in Elems(scheduler.calls[k].target) :
                <<TagKeyUnset, "stop">> \notin resTags[i]

\* C18's case: the scheduler stopped an instance tagged stop, which is still
\* stopped, and its last invocation, a start, started another instance and
\* not this one.
C18_Witness ==
    /\ EventAction(scheduler.selector) = "start"
    /\ scheduler.error # "remote"
    /\ scheduler.matched # <<>>
    /\ \E i \in scheduler.stopped :
        /\ instState[i] = "stopped"
        /\ <<TagKeyUnset, "stop">> \in resTags[i]
        /\ i \notin Elems(scheduler.matched)
        /\ i \notin scheduler.started


\* The findings of a category that the regions scanned from the i-th on hold,
\* in scan order, leaving out the regions whose scan raised.
RECURSIVE FindingsOfReturned(_, _, _, _, _)
FindingsOfReturned(scanned, i, category, found, failed) ==
    IF i > Len(scanned) THEN <<>>
    ELSE (IF scanned[i] \notin failed /\ category \in found[scanned[i]]
          THEN <<[Region |-> scanned[i], Finding |-> category]>>
          ELSE <<>>)
         \o FindingsOfReturned(scanned, i + 1, category, found, failed)

\* The place of a region in the order of the scan.
ScanIndex(scanned, region) == CHOOSE i \in 1..Len(scanned) : scanned[i] = region

\* C17: a run of unused_resources.py that got its list of regions scans every
\* one of them, one after the other, whether or not an earlier one raised;
\* each category of the combined output is, in scan order, all the findings
\* of the regions whose scan_all returned and nothing of a region whose scan
\* raised; and the run goes on to write that output (it exits 0 with the
\* file written, or 1 when the write itself failed).
C17_FailedRegionIsSkippedWhole ==
    (finder.status \in {"exit0", "exit1"} /\ ~NoRegionSelector(finder.args)) =>
        /\ finder.args[1].region # <<>> => finder.scanned = finder.args[1].region
        /\ finder.args[1].region = <<>> =>
            /\ Elems(finder.scanned) = RegionNames
            /\ Len(finder.scanned) = Cardinality(RegionNames)
        /\ \A a, b \in 1..Len(finder.calls) :
            (/\ a < b
             /\ finder.calls[a].target \in RegionNames
             /\ finder.calls[b].target \in RegionNames) =>
                ScanIndex(finder.scanned, finder.calls[a].target)
                    <= ScanIndex(finder.scanned, finder.calls[b].target)
        /\ \A r \in Elems(finder.scanned) \ FailedRegions(finder) :
            Len(CallsAt(finder.calls, r)) = Len(Categories)
        /\ \A c \in CategoryNames :
            finder.all_results[1][c] =
                FindingsOfReturned(finder.scanned, 1, c, finder.found[1],
                                   FailedRegions(finder))
        /\ finder.status = "exit0" => finder.written = finder.all_results

\* C17's case: of two regions with findings in every category, the first
\* raised in its third scan and the second was scanned to the end; the file
\* written holds the second region's four findings and none of the first.
C17_Witness ==
    /\ finder.status = "exit0"
    /\ Len(finder.scanned) = 2
    /\ finder.failed = {<<finder.scanned[1], 3>>}
    /\ \A r \in RegionNames : finder.found[1][r] = CategoryNames
    /\ Len(CallsAt(finder.calls, finder.scanned[2])) = 4
    /\ \A c \in CategoryNames :
        finder.written[1][c] = <<[Region |-> finder.scanned[2], Finding |-> c]>>

====
